---- MODULE Spec2Model ----
(***************************************************************************)
(* A model of lofreq's src/lofreq_core/utils.c: the growable int array,   *)
(* is_dir, the file slurp / line count / directory listing helpers, the   *)
(* symlink resolver (readlink_malloc, resolved_path) and dbl_median.      *)
(*                                                                         *)
(* Each component is a small state machine with its own specification;    *)
(* the variables of the other components stay at their initial values.    *)
(***************************************************************************)
EXTENDS Integers, Sequences, FiniteSets, TLC

VARIABLES
    \* ---- resolved_path / readlink_malloc -------------------------------
    fs,             \* the filesystem: node id -> [kind, target]
    cwd,            \* the process working directory (a node id)
    path,           \* the argument of resolved_path
    entry_wd,       \* history: cwd when resolved_path was entered
    orig_wd,        \* char orig_wd[PATH_MAX]
    rp,             \* char *resolved_path (NULL or a path)
    pc,             \* position inside resolved_path
    ret,            \* the value returned
    fail_at,        \* history: which call failed ("none" if none)
    rl_attempts,    \* history: every readlink(2) call of readlink_malloc
    restore_failed, \* history: the chdir(orig_wd) of line 409 failed
    \* ---- int_varray_t --------------------------------------------------
    a_n,            \* a->n
    a_alloced,      \* a->alloced (bytes)
    a_grow,         \* a->grow_by_size
    a_data,         \* the values stored through a->data
    a_oob,          \* history: some store went past the allocated bytes
    \* ---- is_dir --------------------------------------------------------
    st_ok,          \* whether stat(path) succeeds
    st_mode,        \* st_mode of the file at path
    isdir_ret,      \* the value is_dir returned
    probe_pc,       \* "idle" before the call, "returned" after it
    \* ---- ae_load_file_to_memory, count_lines, ls_dir --------------------
    f_content,      \* the bytes of the file at `filename`
    d_entries,      \* the names readdir delivers for `path`, in order
    f_pc,           \* "idle", "count_lines", "ls_dir" or "crashed"
    f_last,         \* the function that ran last
    f_ret,          \* its return value
    handles,        \* FILE* and DIR* handles open in the process
    result,         \* *result of ae_load_file_to_memory: "NULL" or "buf"
    buf,            \* the malloc'ed buffer: "none", "live" or "freed"
    buf_data,       \* the bytes in the buffer
    ld,             \* history of the last ae_load_file_to_memory call
    cl_pos,         \* count_lines: bytes read so far
    cl_count,       \* count_lines: count
    ls_pattern,     \* ls_dir: pattern (NULL or a string)
    ls_sort,        \* ls_dir: sort_lexi
    d_pos,          \* ls_dir: entries read so far
    matches,        \* ls_dir: *matches (NULL or an array of strings)
    num_matches,    \* ls_dir: num_matches
    \* ---- dbl_median ----------------------------------------------------
    data,           \* the array handed to dbl_median
    sdata,          \* the sorted copy made by the last call
    sorted_from,    \* history: the array that copy was sorted from
    med,            \* the value the last call returned
    prev_med,       \* the value the call before it returned
    m_calls,        \* calls made so far
    m_pc            \* "ready" for a call, "returned" after one

pathVars == <<fs, cwd, path, entry_wd, orig_wd, rp, pc, ret, fail_at,
              rl_attempts, restore_failed>>
vaVars == <<a_n, a_alloced, a_grow, a_data, a_oob>>
probeVars == <<st_ok, st_mode, isdir_ret, probe_pc>>

fileVars == <<f_content, d_entries, f_pc, f_last, f_ret, handles, result,
              buf, buf_data, ld, cl_pos, cl_count, ls_pattern, ls_sort,
              d_pos, matches, num_matches>>

medVars == <<data, sdata, sorted_from, med, prev_med, m_calls, m_pc>>

vars == <<pathVars, vaVars, probeVars, fileVars, medVars>>

\* what the actions of one component leave alone
notPath   == <<vaVars, probeVars, fileVars, medVars>>
notVarray == <<pathVars, probeVars, fileVars, medVars>>
notProbe  == <<pathVars, vaVars, fileVars, medVars>>
notFile   == <<pathVars, vaVars, probeVars, medVars>>
notMedian == <<pathVars, vaVars, probeVars, fileVars>>

----------------------------------------------------------------------------
(* Pointers: NULL or a pointer to one value.                               *)
NULL == <<>>
Ptr(v) == <<v>>
Deref(q) == q[1]

Min(a, b) == IF a < b THEN a ELSE b

----------------------------------------------------------------------------
(*                         The filesystem                                  *)
(* A path string is the sequence of its components; an absolute path has  *)
(* "/" as its first element: "/a/x" is <<"/","a","x">>, "../b/x" is       *)
(* <<"..","b","x">>.  A node id is the sequence of names from the root.   *)

Root  == <<>>
DirA  == <<"a">>
DirB  == <<"b">>
SlotD == <<"d">>
SlotAX == <<"a", "x">>
SlotAY == <<"a", "y">>
SlotBX == <<"b", "x">>
NodeIds == {Root, DirA, DirB, SlotD, SlotAX, SlotAY, SlotBX}

ERR == <<"!">>     \* a failed lookup (ENOENT, ENOTDIR, ELOOP): no node id

Dir     == [kind |-> "dir",    target |-> <<>>]
File    == [kind |-> "file",   target |-> <<>>]
Absent  == [kind |-> "absent", target |-> <<>>]
Link(t) == [kind |-> "link",   target |-> t]

\* what the three file slots and the slot /d may hold
LinkTargets == { <<"x">>, <<"y">>, <<"/", "b", "x">>, <<"..", "b", "x">>,
                 <<"..", "a", "y">>, <<"/", "d", "y">> }
FileContents == {Absent, File} \cup { Link(t) : t \in LinkTargets }
DContents == {Absent, Link(<<"a">>), Link(<<"/", "b">>)}

FsOf(ax, ay, bx, d) ==
    (Root :> Dir) @@ (DirA :> Dir) @@ (DirB :> Dir) @@
    (SlotAX :> ax) @@ (SlotAY :> ay) @@ (SlotBX :> bx) @@ (SlotD :> d)

\* the paths resolved_path is called with, and the directories it is
\* called from
ArgPaths == { <<"x">>, <<"y">>, <<".", "x">>, <<"a", "x">>, <<"d", "y">>,
              <<"..", "a", "x">>, <<"/", "a", "x">>, <<"/", "a", "y">>,
              <<"/", "b", "x">>, <<"/", "d", "x">>, <<"/", "a">>,
              <<"/", "a", "..", "b", "x">>, <<"/", "a", "z">> }
StartDirs == {Root, DirA, DirB}

\* the kernel's limit on the links followed in one lookup (ELOOP)
MaxSymlinks == 5

Parent(n) == IF n = Root THEN Root ELSE SubSeq(n, 1, Len(n) - 1)

(* Path lookup as the kernel does it: walk the components from `cur`,     *)
(* following a symbolic link relative to the directory that holds it; the *)
(* last component is followed only if followLast.                         *)
RECURSIVE Namei(_, _, _, _, _)
Namei(f, cur, comps, followLast, fuel) ==
    IF comps = <<>> THEN cur
    ELSE LET c    == Head(comps)
             rest == Tail(comps)
         IN  IF c = "/" THEN Namei(f, Root, rest, followLast, fuel)
             ELSE IF f[cur].kind # "dir" THEN ERR
             ELSE IF c = "." THEN Namei(f, cur, rest, followLast, fuel)
             ELSE IF c = ".." THEN Namei(f, Parent(cur), rest, followLast, fuel)
             ELSE LET child == Append(cur, c)
                  IN  IF child \notin NodeIds THEN ERR
                      ELSE IF f[child].kind = "absent" THEN ERR
                      ELSE IF f[child].kind = "link" /\ (rest # <<>> \/ followLast)
                      THEN IF fuel = 0 THEN ERR
                           ELSE Namei(f, cur, f[child].target \o rest,
                                      followLast, fuel - 1)
                      ELSE Namei(f, child, rest, followLast, fuel)

\* strlen of a path string
RECURSIVE CompChars(_)
CompChars(comps) ==
    IF comps = <<>> THEN 0
    ELSE (IF Head(comps) = ".." THEN 2 ELSE 1) + CompChars(Tail(comps))
StrLen(p) ==
    IF p = <<"/">> THEN 1
    ELSE IF Head(p) = "/" THEN CompChars(Tail(p)) + (Len(p) - 1)
    ELSE CompChars(p) + (Len(p) - 1)

\* getcwd(3): the absolute path of the working directory
AbsPath(node) == <<"/">> \o node

\* lstat(2): does not follow a link in the last component
Lstat(f, wd, p) ==
    LET n == Namei(f, wd, p, FALSE, MaxSymlinks)
    IN  IF n = ERR THEN [ok |-> FALSE, islnk |-> FALSE]
        ELSE [ok |-> TRUE, islnk |-> f[n].kind = "link"]

\* chdir(2): the new working directory, or ERR
Chdir(f, wd, p) ==
    LET n == Namei(f, wd, p, TRUE, MaxSymlinks)
    IN  IF n = ERR THEN ERR
        ELSE IF f[n].kind # "dir" THEN ERR
        ELSE n

\* realpath(3): the canonical absolute path of an existing file, or NULL
Realpath(f, wd, p) ==
    LET n == Namei(f, wd, p, TRUE, MaxSymlinks)
    IN  IF n = ERR THEN NULL ELSE Ptr(AbsPath(n))

\* dirname(3)
Dirname(p) ==
    IF p = <<"/">> THEN <<"/">>
    ELSE IF Len(p) = 1 THEN <<".">>
    ELSE SubSeq(p, 1, Len(p) - 1)

----------------------------------------------------------------------------
(*                          readlink_malloc                                *)

\* readlink(2) of `filename` into a buffer of `alloced` bytes (0: the
\* buffer is NULL) with size limit `size`: the number of bytes placed in
\* the buffer, or -1.  The kernel copies min(length, size) bytes; with a
\* NULL buffer the copy faults and the call fails with EFAULT.
OsReadlink(f, wd, filename, alloced, size) ==
    LET n == Namei(f, wd, filename, FALSE, MaxSymlinks)
    IN  IF n = ERR THEN -1
        ELSE IF f[n].kind # "link" THEN -1
        ELSE IF alloced = 0 THEN -1
        ELSE Min(StrLen(f[n].target), size)

\* the bytes readlink(2) would deliver for `filename`
LinkBytes(f, wd, filename) ==
    f[Namei(f, wd, filename, FALSE, MaxSymlinks)].target

InitialSize == 100

(* The while(1) loop of readlink_malloc.  Each pass calls readlink with   *)
(* the buffer as it is, and only then reallocs the buffer to `size`.      *)
(* `attempts` records, for every readlink call, the size limit passed and *)
(* the bytes allocated to the buffer at that moment.  The buffer returned *)
(* holds the link's bytes and no terminating NUL.                         *)
RECURSIVE RlLoop(_, _, _, _, _, _)
RlLoop(f, wd, filename, size, alloced, attempts) ==
    LET nchars == OsReadlink(f, wd, filename, alloced, size)
        att    == Append(attempts, [size |-> size, alloced |-> alloced])
    IN  IF nchars < 0 THEN [buffer |-> NULL, attempts |-> att]
        ELSE IF nchars < size
        THEN [buffer |-> Ptr(LinkBytes(f, wd, filename)), attempts |-> att]
        ELSE RlLoop(f, wd, filename, size * 2, size, att)

readlink_malloc(f, wd, filename) ==
    RlLoop(f, wd, filename, InitialSize, 0, <<>>)

----------------------------------------------------------------------------
(*                           resolved_path                                 *)

\* tmp_path carries no terminating NUL, so what realpath reads as a string
\* is the link's bytes followed by whatever the heap holds: either the
\* target itself (the next byte happens to be 0) or a name that extends
\* its last component.
Garbled(t) == SubSeq(t, 1, Len(t) - 1) \o <<"?">>
TmpPathReadings(t) == {t, Garbled(t)}

\* lines 381-384: readlink_malloc returned NULL
OnReadlinkNullContinue(r) == [rp |-> r, pc |-> "loop"]
OnReadlinkNull(r) == [rp |-> NULL, pc |-> "chdir_and_return"]

\* line 409: the directory the function changes back to
RestoreTargetDirname(owd) == Dirname(owd)
RestoreTarget(owd) == owd

\* lines 357-361: getcwd and strdup
ResolvedPathEntry ==
    /\ pc = "entry"
    /\ \E getcwd_ok \in BOOLEAN :
          IF getcwd_ok
          THEN /\ orig_wd' = AbsPath(cwd)
               /\ rp' = Ptr(path)
               /\ pc' = "loop"
               /\ UNCHANGED <<ret, fail_at>>
          ELSE /\ ret' = NULL
               /\ fail_at' = "getcwd"
               /\ pc' = "done"
               /\ UNCHANGED <<orig_wd, rp>>
    /\ UNCHANGED <<fs, cwd, path, entry_wd, rl_attempts, restore_failed>>
    /\ UNCHANGED notPath

\* lines 366-377: lstat, and the exit from the loop on a non-link
LoopLstat ==
    /\ pc = "loop"
    /\ LET st == Lstat(fs, cwd, Deref(rp))
       IN  IF ~st.ok
           THEN /\ rp' = NULL
                /\ fail_at' = "lstat"
                /\ pc' = "chdir_and_return"
           ELSE IF ~st.islnk
           THEN /\ pc' = "chdir_and_return"
                /\ UNCHANGED <<rp, fail_at>>
           ELSE /\ pc' = "link"
                /\ UNCHANGED <<rp, fail_at>>
    /\ UNCHANGED <<fs, cwd, path, entry_wd, orig_wd, ret, rl_attempts,
                   restore_failed>>
    /\ UNCHANGED notPath

\* lines 380-404: read the link, chdir to its directory, realpath
FollowLink ==
    /\ pc = "link"
    /\ LET rl == readlink_malloc(fs, cwd, Deref(rp))
       IN  /\ rl_attempts' = rl.attempts
           /\ IF rl.buffer = NULL
              THEN /\ rp' = OnReadlinkNull(rp).rp
                   /\ pc' = OnReadlinkNull(rp).pc
                   /\ fail_at' = "readlink"
                   /\ UNCHANGED <<cwd, ret>>
              ELSE LET d == Chdir(fs, cwd, Dirname(Deref(rp)))
                   IN  IF d = ERR
                       THEN \* returns at once, without chdir(orig_wd)
                            /\ ret' = NULL
                            /\ fail_at' = "chdir"
                            /\ pc' = "done"
                            /\ UNCHANGED <<cwd, rp>>
                       ELSE \E tmp_path \in TmpPathReadings(Deref(rl.buffer)) :
                              LET realpath_buf == Realpath(fs, d, tmp_path)
                              IN  /\ cwd' = d
                                  /\ ret' = ret
                                  /\ IF realpath_buf = NULL
                                     THEN /\ rp' = NULL
                                          /\ fail_at' = "realpath"
                                          /\ pc' = "chdir_and_return"
                                     ELSE /\ rp' = realpath_buf
                                          /\ fail_at' = fail_at
                                          /\ pc' = "loop"
    /\ UNCHANGED <<fs, path, entry_wd, orig_wd, restore_failed>>
    /\ UNCHANGED notPath

\* lines 407-414: chdir back and return
ChdirAndReturn ==
    /\ pc = "chdir_and_return"
    /\ \E chdir_ok \in BOOLEAN :
          LET d == Chdir(fs, cwd, RestoreTarget(orig_wd))
          IN  IF chdir_ok /\ d # ERR
              THEN /\ cwd' = d
                   /\ restore_failed' = FALSE
              ELSE /\ cwd' = cwd
                   /\ restore_failed' = TRUE
    /\ ret' = rp
    /\ pc' = "done"
    /\ UNCHANGED <<fs, path, entry_wd, orig_wd, rp, fail_at, rl_attempts>>
    /\ UNCHANGED notPath

PathInit ==
    /\ \E ax \in FileContents, ay \in FileContents, bx \in FileContents,
          d \in DContents : fs = FsOf(ax, ay, bx, d)
    /\ cwd \in StartDirs
    /\ entry_wd = cwd
    /\ path \in ArgPaths
    /\ orig_wd = <<>>
    /\ rp = NULL
    /\ pc = "entry"
    /\ ret = NULL
    /\ fail_at = "none"
    /\ rl_attempts = <<>>
    /\ restore_failed = FALSE

PathNext ==
    \/ ResolvedPathEntry
    \/ LoopLstat
    \/ FollowLink
    \/ ChdirAndReturn


----------------------------------------------------------------------------
(*                    Properties of resolved_path                          *)

(* Following a chain by hand: readlink the link, resolve its target       *)
(* relative to the directory that holds the link, and repeat until a      *)
(* non-link is reached.  `links` counts the links followed; `cycle` is    *)
(* set when the chain never ends.                                         *)
RECURSIVE FollowChain(_, _, _)
FollowChain(f, n, fuel) ==
    IF n = ERR THEN [node |-> ERR, links |-> 0, cycle |-> FALSE]
    ELSE IF f[n].kind # "link" THEN [node |-> n, links |-> 0, cycle |-> FALSE]
    ELSE IF fuel = 0 THEN [node |-> ERR, links |-> 0, cycle |-> TRUE]
    ELSE LET nxt == Namei(f, Parent(n), f[n].target, FALSE, MaxSymlinks)
             r   == FollowChain(f, nxt, fuel - 1)
         IN  [node |-> r.node, links |-> r.links + 1, cycle |-> r.cycle]

ManualFollow(f, wd, p) ==
    FollowChain(f, Namei(f, wd, p, FALSE, MaxSymlinks), MaxSymlinks)

\* absolute, no "." or "..", and no component is a symbolic link
IsCanonical(f, p) ==
    /\ Head(p) = "/"
    /\ \A i \in 2..Len(p) : p[i] \notin {".", ".."}
    /\ \A k \in 1..Len(p) :
          LET st == Lstat(f, Root, SubSeq(p, 1, k))
          IN  st.ok /\ ~st.islnk

\* C1: whenever resolved_path has returned and the chdir back to the saved
\* directory did not itself fail, the working directory is the one the
\* call was entered with.
WorkingDirRestored ==
    (pc = "done" /\ ~restore_failed) => cwd = entry_wd

\* C1 witness: a call on a symbolic link, made from a directory other than
\* the root, that returned NULL after the readlink failure with the
\* working directory as at entry.
WorkingDirRestoredWitness ==
    /\ pc = "done"
    /\ fail_at = "readlink"
    /\ ret = NULL
    /\ ~restore_failed
    /\ entry_wd # Root
    /\ cwd = entry_wd

\* C3: if `path` starts a chain of two or more symbolic links that ends at
\* an existing file, resolved_path returns a path, and that path names the
\* file reached by following the links one at a time.
ChainResolvedToFinalTarget ==
    LET mf == ManualFollow(fs, entry_wd, path)
    IN  (/\ pc = "done"
         /\ fail_at # "getcwd"
         /\ mf.node # ERR
         /\ mf.links >= 2
         /\ fs[mf.node].kind = "file")
        => (/\ ret # NULL
            /\ Namei(fs, entry_wd, Deref(ret), FALSE, MaxSymlinks) = mf.node)

\* C4: if the last component of the existing `path` is not a symbolic
\* link, resolved_path returns a canonical path (absolute, free of "." and
\* "..", free of symbolic links) that names the same file.
NonLinkReturnsCanonical ==
    LET st == Lstat(fs, entry_wd, path)
    IN  (pc = "done" /\ fail_at # "getcwd" /\ st.ok /\ ~st.islnk)
        => (/\ ret # NULL
            /\ IsCanonical(fs, Deref(ret))
            /\ Namei(fs, Root, Deref(ret), FALSE, MaxSymlinks)
                 = Namei(fs, entry_wd, path, FALSE, MaxSymlinks))

\* C8: every readlink call made by readlink_malloc reads into a buffer
\* whose allocated size is at least the size limit passed to the call.
ReadIntoAllocatedBuffer ==
    \A i \in 1..Len(rl_attempts) :
        rl_attempts[i].alloced >= rl_attempts[i].size

\* C9: every call of resolved_path eventually returns, whatever the
\* (unchanging) filesystem, cyclic links included.
ResolvedPathTerminates == <>(pc = "done")

\* C9 witness: the call has returned although `path` is a symbolic link
\* whose chain of links is a cycle.
TerminatesOnCycleWitness ==
    /\ pc = "done"
    /\ fail_at # "getcwd"
    /\ ManualFollow(fs, entry_wd, path).cycle

----------------------------------------------------------------------------
(*                            int_varray_t                                 *)

SizeofInt == 4

MaxGrow == 9     \* largest grow_by_size handed to int_varray_init
MaxAdds == 5     \* appends made to one array
IntValues == {0, 1}

\* lines 105-111: the byte size to realloc to.  (The asserts on SIZE_MAX
\* cannot fire for the sizes reached here.)
SizeToAlloc(n, alloced, grow_by_size) ==
    IF 1 >= grow_by_size
    THEN (IF 0 = n THEN SizeofInt ELSE alloced * 2)
    ELSE alloced + grow_by_size

\* lines 88-97
int_varray_init ==
    /\ \E grow_by_size \in 0..MaxGrow : a_grow' = grow_by_size
    /\ a_n' = 0
    /\ a_data' = <<>>
    /\ a_alloced' = 0
    /\ a_oob' = FALSE
    /\ UNCHANGED notVarray

\* lines 99-117: grows only when n * sizeof(int) equals alloced exactly,
\* then stores at index n whether or not the bytes of that element lie
\* inside the allocation (realloc is taken to succeed; its result is not
\* checked by the code)
int_varray_add_value ==
    /\ a_n < MaxAdds
    /\ \E value \in IntValues :
          LET alloced == IF a_n * SizeofInt = a_alloced
                         THEN SizeToAlloc(a_n, a_alloced, a_grow)
                         ELSE a_alloced
          IN  /\ a_alloced' = alloced
              /\ a_data' = Append(a_data, value)
              /\ a_oob' = (a_oob \/ (a_n + 1) * SizeofInt > alloced)
              /\ a_n' = a_n + 1
    /\ UNCHANGED a_grow
    /\ UNCHANGED notVarray

\* lines 79-86
int_varray_free ==
    /\ a_data' = <<>>
    /\ a_n' = 0
    /\ a_alloced' = 0
    /\ a_grow' = 0
    /\ a_oob' = FALSE
    /\ UNCHANGED notVarray

VarrayInit ==
    /\ a_grow \in 0..MaxGrow
    /\ a_n = 0
    /\ a_data = <<>>
    /\ a_alloced = 0
    /\ a_oob = FALSE

VarrayIdle ==
    /\ a_grow = 0
    /\ a_n = 0
    /\ a_data = <<>>
    /\ a_alloced = 0
    /\ a_oob = FALSE

VarrayNext ==
    \/ int_varray_init
    \/ int_varray_add_value
    \/ int_varray_free

\* C2: the populated length never exceeds the allocated capacity:
\* n * sizeof(int) <= alloced, whatever the growth increment, so no append
\* has stored outside the allocated buffer.
LengthWithinCapacity ==
    /\ a_n * SizeofInt <= a_alloced
    /\ ~a_oob

----------------------------------------------------------------------------
(*                               is_dir                                    *)

\* the file type bits of st_mode (sys/stat.h)
S_IFMT   == 61440    \* 0170000
S_IFIFO  == 4096     \* 0010000
S_IFCHR  == 8192     \* 0020000
S_IFDIR  == 16384    \* 0040000
S_IFBLK  == 24576    \* 0060000
S_IFREG  == 32768    \* 0100000
S_IFSOCK == 49152    \* 0140000

FileTypes == {S_IFIFO, S_IFCHR, S_IFDIR, S_IFBLK, S_IFREG, S_IFSOCK}
\* permission bits: 0000 0444 0644 0700 0755 0777 01777 04755
PermBits == {0, 292, 420, 448, 493, 511, 1023, 2541}

RECURSIVE BitAnd(_, _)
BitAnd(a, b) ==
    IF a = 0 \/ b = 0 THEN 0
    ELSE (a % 2) * (b % 2) + 2 * BitAnd(a \div 2, b \div 2)

\* lines 123-137
is_dir(ok, mode) ==
    IF ok
    THEN (IF BitAnd(mode, S_IFDIR) # 0 THEN 1 ELSE 0)
    ELSE 0

IsDirCall ==
    /\ probe_pc = "idle"
    /\ isdir_ret' = is_dir(st_ok, st_mode)
    /\ probe_pc' = "returned"
    /\ UNCHANGED <<st_ok, st_mode>>
    /\ UNCHANGED notProbe

\* the caller turns to another path
ProbeOther ==
    /\ probe_pc = "returned"
    /\ st_ok' \in BOOLEAN
    /\ \E t \in FileTypes, perm \in PermBits : st_mode' = t + perm
    /\ probe_pc' = "idle"
    /\ UNCHANGED isdir_ret
    /\ UNCHANGED notProbe

ProbeInit ==
    /\ st_ok \in BOOLEAN
    /\ \E t \in FileTypes, perm \in PermBits : st_mode = t + perm
    /\ isdir_ret = 0
    /\ probe_pc = "idle"

ProbeIdle ==
    /\ st_ok = FALSE
    /\ st_mode = S_IFREG
    /\ isdir_ret = 0
    /\ probe_pc = "idle"

ProbeNext ==
    \/ IsDirCall
    \/ ProbeOther

\* C6: is_dir returns 1 only if stat succeeds and the file type is
\* directory; for every other file type and every stat failure it
\* returns 0.
IsDirOnlyForDirectories ==
    probe_pc = "returned" =>
        (isdir_ret = 1 <=> (st_ok /\ BitAnd(st_mode, S_IFMT) = S_IFDIR))

----------------------------------------------------------------------------
(*            ae_load_file_to_memory, count_lines, ls_dir                  *)

MaxFileLen == 2    \* longest file
MaxEntries == 2    \* most entries in the directory
MaxHandles == 2    \* calls are made while fewer handles than this are open

Bytes == {"a", "\n"}
\* a string is the sequence of its characters
EntryNames == { <<".">>, <<"a">>, <<"a", "b">>, <<"b">> }
Patterns == { NULL, Ptr(<<"a">>), Ptr(<<"b">>) }
DirPath == <<"d">>

SeqsUpTo(S, n) == UNION { [1..k -> S] : k \in 0..n }
Injective(q) == \A i, j \in 1..Len(q) : q[i] = q[j] => i = j

LONG_MAX == 2147483647    \* limits.h, where long has 32 bits

NoLoad == [open_ok |-> FALSE, alloc_failed |-> FALSE,
           read_attempted |-> FALSE, short_read |-> FALSE]

(* lines 163-185.  `result` itself is never NULL (lines 168 and 174 store *)
(* through it), so the test of line 175 never succeeds and a failed       *)
(* malloc goes on to fread.  fread into the NULL *result: with size 0 it  *)
(* reads nothing and line 183 stores through NULL; with size > 0 the copy *)
(* faults in the process (SIGSEGV) or in the kernel (EFAULT, which fread  *)
(* reports as a short read).                                              *)
ae_load_file_to_memory ==
    /\ f_pc = "idle"
    /\ handles < MaxHandles
    /\ f_last' = "load"
    /\ \E open_ok \in BOOLEAN, malloc_ok \in BOOLEAN, segv \in BOOLEAN,
          nread \in 0..Len(f_content) :
          LET size == Len(f_content)
          IN  IF ~open_ok
              THEN \* lines 167-170
                   /\ result' = "NULL"
                   /\ f_ret' = -1
                   /\ ld' = NoLoad
                   /\ UNCHANGED <<handles, buf, buf_data, f_pc>>
              ELSE IF ~malloc_ok
              THEN /\ result' = "NULL"
                   /\ handles' = handles + 1
                   /\ ld' = [open_ok |-> TRUE, alloc_failed |-> TRUE,
                             read_attempted |-> TRUE, short_read |-> FALSE]
                   /\ UNCHANGED <<buf, buf_data>>
                   /\ IF size = 0 \/ segv
                      THEN f_pc' = "crashed" /\ f_ret' = f_ret
                      ELSE \* free(NULL); return -3
                           f_pc' = f_pc /\ f_ret' = -3
              ELSE IF size # nread
              THEN \* lines 178-181: free(*result); return -3
                   /\ result' = "buf"
                   /\ buf' = "freed"
                   /\ buf_data' = SubSeq(f_content, 1, nread)
                   /\ handles' = handles + 1
                   /\ f_ret' = -3
                   /\ ld' = [open_ok |-> TRUE, alloc_failed |-> FALSE,
                             read_attempted |-> TRUE, short_read |-> TRUE]
                   /\ UNCHANGED f_pc
              ELSE \* lines 182-184
                   /\ result' = "buf"
                   /\ buf' = "live"
                   /\ buf_data' = Append(f_content, "\\0")
                   /\ handles' = handles
                   /\ f_ret' = size
                   /\ ld' = [open_ok |-> TRUE, alloc_failed |-> FALSE,
                             read_attempted |-> TRUE, short_read |-> FALSE]
                   /\ UNCHANGED f_pc
    /\ UNCHANGED <<f_content, d_entries, cl_pos, cl_count, ls_pattern,
                   ls_sort, d_pos, matches, num_matches>>
    /\ UNCHANGED notFile

\* lines 197-203: fopen
CountLinesOpen ==
    /\ f_pc = "idle"
    /\ handles < MaxHandles
    /\ f_last' = "count"
    /\ cl_pos' = 0
    /\ cl_count' = 0
    /\ \E open_ok \in BOOLEAN :
          IF open_ok
          THEN /\ handles' = handles + 1
               /\ f_pc' = "count_lines"
               /\ f_ret' = f_ret
          ELSE /\ f_ret' = -1
               /\ UNCHANGED <<handles, f_pc>>
    /\ UNCHANGED <<f_content, d_entries, result, buf, buf_data, ld,
                   ls_pattern, ls_sort, d_pos, matches, num_matches>>
    /\ UNCHANGED notFile

\* lines 204-214: one getc, up to and including the return
CountLinesGetc ==
    /\ f_pc = "count_lines"
    /\ IF cl_pos = Len(f_content)
       THEN \* EOF: fclose and return count
            /\ handles' = handles - 1
            /\ f_ret' = cl_count
            /\ f_pc' = "idle"
            /\ UNCHANGED <<cl_pos, cl_count>>
       ELSE IF f_content[cl_pos + 1] = "\n"
       THEN IF cl_count = LONG_MAX
            THEN \* lines 206-209: return -2, no fclose
                 /\ f_ret' = -2
                 /\ f_pc' = "idle"
                 /\ UNCHANGED <<handles, cl_pos, cl_count>>
            ELSE /\ cl_count' = cl_count + 1
                 /\ cl_pos' = cl_pos + 1
                 /\ UNCHANGED <<handles, f_ret, f_pc>>
       ELSE /\ cl_pos' = cl_pos + 1
            /\ UNCHANGED <<handles, f_ret, f_pc, cl_count>>
    /\ UNCHANGED <<f_content, d_entries, f_last, result, buf, buf_data, ld,
                   ls_pattern, ls_sort, d_pos, matches, num_matches>>
    /\ UNCHANGED notFile

\* the code of a character, for strcmp
Code(c) ==
    CASE c = "." -> 46
      [] c = "/" -> 47
      [] c = "a" -> 97
      [] c = "b" -> 98
      [] c = "d" -> 100

\* strcmp(3)
RECURSIVE strcmp(_, _)
strcmp(s, t) ==
    IF s = <<>> /\ t = <<>> THEN 0
    ELSE IF s = <<>> THEN -1
    ELSE IF t = <<>> THEN 1
    ELSE IF Head(s) # Head(t) THEN Code(Head(s)) - Code(Head(t))
    ELSE strcmp(Tail(s), Tail(t))

\* line 57-60
str_cmp(a, b) == strcmp(a, b)

\* strstr(3) # NULL
StrStr(haystack, needle) ==
    \E i \in 1..(Len(haystack) + 1) :
        /\ i + Len(needle) - 1 <= Len(haystack)
        /\ SubSeq(haystack, i, i + Len(needle) - 1) = needle

\* qsort(3) with str_cmp, a total order under which only identical strings
\* compare equal: the one ascending arrangement
RECURSIVE InsertSorted(_, _)
InsertSorted(q, e) ==
    IF q = <<>> THEN <<e>>
    ELSE IF str_cmp(e, Head(q)) <= 0 THEN <<e>> \o q
    ELSE <<Head(q)>> \o InsertSorted(Tail(q), e)
RECURSIVE QsortStr(_)
QsortStr(q) ==
    IF q = <<>> THEN <<>>
    ELSE InsertSorted(QsortStr(Tail(q)), Head(q))

\* lines 225-234: opendir
LsDirOpen ==
    /\ f_pc = "idle"
    /\ handles < MaxHandles
    /\ f_last' = "ls"
    /\ ls_pattern' \in Patterns
    /\ ls_sort' \in BOOLEAN
    /\ d_pos' = 0
    /\ num_matches' = 0
    /\ matches' = NULL
    /\ \E open_ok \in BOOLEAN :
          IF open_ok
          THEN /\ handles' = handles + 1
               /\ f_pc' = "ls_dir"
               /\ f_ret' = f_ret
          ELSE /\ f_ret' = -1
               /\ UNCHANGED <<handles, f_pc>>
    /\ UNCHANGED <<f_content, d_entries, result, buf, buf_data, ld, cl_pos,
                   cl_count>>
    /\ UNCHANGED notFile

\* lines 236-258: one readdir that delivers an entry
LsDirReaddir ==
    /\ f_pc = "ls_dir"
    /\ d_pos < Len(d_entries)
    /\ d_pos' = d_pos + 1
    /\ LET d_name == d_entries[d_pos + 1]
           match  == IF ls_pattern # NULL /\ StrStr(d_name, Deref(ls_pattern))
                     THEN 1
                     ELSE IF ls_pattern = NULL THEN 1 ELSE 0
           old    == IF matches = NULL THEN <<>> ELSE Deref(matches)
       IN  IF 0 = match
           THEN UNCHANGED <<num_matches, matches, f_ret, f_pc>>
           ELSE /\ num_matches' = num_matches + 1
                /\ \E realloc_ok \in BOOLEAN, calloc_ok \in BOOLEAN :
                      IF ~realloc_ok
                      THEN \* lines 249-252: return -1, no closedir
                           /\ matches' = NULL
                           /\ f_ret' = -1
                           /\ f_pc' = "idle"
                      ELSE IF ~calloc_ok
                      THEN \* sprintf stores through the NULL calloc gave
                           /\ matches' = Ptr(Append(old, NULL))
                           /\ f_pc' = "crashed"
                           /\ f_ret' = f_ret
                      ELSE /\ matches' =
                                Ptr(Append(old, DirPath \o <<"/">> \o d_name))
                           /\ UNCHANGED <<f_ret, f_pc>>
    /\ UNCHANGED <<f_content, d_entries, f_last, handles, result, buf,
                   buf_data, ld, cl_pos, cl_count, ls_pattern, ls_sort>>
    /\ UNCHANGED notFile

\* lines 236, 259-264: readdir returns NULL; closedir, sort, return
LsDirFinish ==
    /\ f_pc = "ls_dir"
    /\ d_pos = Len(d_entries)
    /\ handles' = handles - 1
    /\ matches' = IF ls_sort /\ matches # NULL
                  THEN Ptr(QsortStr(Deref(matches)))
                  ELSE matches
    /\ f_ret' = num_matches
    /\ f_pc' = "idle"
    /\ UNCHANGED <<f_content, d_entries, f_last, result, buf, buf_data, ld,
                   cl_pos, cl_count, ls_pattern, ls_sort, d_pos, num_matches>>
    /\ UNCHANGED notFile

FileRest ==
    /\ f_pc = "idle"
    /\ f_last = "none"
    /\ f_ret = 0
    /\ handles = 0
    /\ result = "NULL"
    /\ buf = "none"
    /\ buf_data = <<>>
    /\ ld = NoLoad
    /\ cl_pos = 0
    /\ cl_count = 0
    /\ ls_pattern = NULL
    /\ ls_sort = FALSE
    /\ d_pos = 0
    /\ matches = NULL
    /\ num_matches = 0

FileInit ==
    /\ f_content \in SeqsUpTo(Bytes, MaxFileLen)
    /\ d_entries \in { q \in SeqsUpTo(EntryNames, MaxEntries) : Injective(q) }
    /\ FileRest

FileIdle ==
    /\ f_content = <<>>
    /\ d_entries = <<>>
    /\ FileRest

FileNext ==
    \/ ae_load_file_to_memory
    \/ CountLinesOpen
    \/ CountLinesGetc
    \/ LsDirOpen
    \/ LsDirReaddir
    \/ LsDirFinish

\* C5: ae_load_file_to_memory hands a buffer to the caller only on
\* success.  An open failure, an allocation failure (noticed before any
\* read is attempted) and a short read each end with a negative status,
\* and after a short read the buffer is freed and *result does not refer
\* to it.
LoadHandsBufferOnlyOnSuccess ==
    LET negative == f_pc = "idle" /\ f_ret < 0
    IN  f_last = "load" =>
          /\ ~ld.open_ok => negative
          /\ ld.alloc_failed => (negative /\ ~ld.read_attempted)
          /\ ld.short_read => (negative /\ buf = "freed" /\ result = "NULL")
          /\ negative => result = "NULL"

\* C10: when ae_load_file_to_memory, count_lines or ls_dir has returned,
\* every handle it opened is closed again.
HandlesClosedOnReturn ==
    f_pc = "idle" => handles = 0

----------------------------------------------------------------------------
(*                         dbl_cmp, dbl_median                             *)
(* A double is modelled by an integer: the value in units of 2^-54.  The  *)
(* values used are even, so the mean of two of them is again an integer   *)
(* number of units, as it is an exact double in the code.                 *)

DBL_EPSILON == 4     \* float.h: 2^-52, that is 4 units
DblValues == {0, 2, 4, 12}
MaxLen == 3          \* longest array handed to dbl_median

Abs(x) == IF x < 0 THEN -x ELSE x

\* lines 44-54
dbl_cmp(da, db) ==
    IF Abs(da - db) < DBL_EPSILON THEN 0
    ELSE IF da < db THEN -1
    ELSE IF da > db THEN 1 ELSE 0

Occurrences(q, v) == Cardinality({ i \in 1..Len(q) : q[i] = v })
Range(q) == { q[i] : i \in 1..Len(q) }
PermutationsOf(q) ==
    { p \in [1..Len(q) -> Range(q)] :
        \A v \in Range(q) : Occurrences(p, v) = Occurrences(q, v) }

(* qsort(3) with dbl_cmp (line 427; the element size given there, that   *)
(* of a pointer to double, equals sizeof(double) on LP64).  qsort leaves  *)
(* the array ascending according to the comparison function, and the      *)
(* order of elements that compare equal is unspecified: any arrangement   *)
(* in which no element compares greater than its successor.               *)
QsortDbl(q) ==
    { p \in PermutationsOf(q) :
        \A i \in 1..(Len(p) - 1) : dbl_cmp(p[i], p[i + 1]) <= 0 }

\* lines 428-434, on the sorted copy (C indices are one less)
MiddleOf(sd) ==
    LET size == Len(sd)
    IN  IF size % 2 = 0
        THEN (sd[size \div 2 + 1] + sd[size \div 2]) \div 2
        ELSE sd[size \div 2 + 1]

(* lines 419-435.  The library's sort is a function of the array: given   *)
(* the array of the call before, it arranges it as it did then.           *)
dbl_median ==
    /\ m_pc = "ready"
    /\ IF Len(data) = 0
       THEN /\ med' = 0
            /\ UNCHANGED <<sdata, sorted_from>>
       ELSE \E s \in QsortDbl(data) :
              /\ (m_calls > 0 /\ sorted_from = data) => s = sdata
              /\ sdata' = s
              /\ sorted_from' = data
              /\ med' = MiddleOf(s)
    /\ prev_med' = med
    /\ m_calls' = m_calls + 1
    /\ m_pc' = "returned"
    /\ UNCHANGED data
    /\ UNCHANGED notMedian

\* the caller permutes the array and asks for the median again
Shuffle ==
    /\ m_pc = "returned"
    /\ m_calls = 1
    /\ data' \in PermutationsOf(data)
    /\ m_pc' = "ready"
    /\ UNCHANGED <<sdata, sorted_from, med, prev_med, m_calls>>
    /\ UNCHANGED notMedian

MedianInit ==
    /\ data \in SeqsUpTo(DblValues, MaxLen)
    /\ sdata = <<>>
    /\ sorted_from = <<>>
    /\ med = 0
    /\ prev_med = 0
    /\ m_calls = 0
    /\ m_pc = "ready"

MedianIdle ==
    /\ data = <<>>
    /\ sdata = <<>>
    /\ sorted_from = <<>>
    /\ med = 0
    /\ prev_med = 0
    /\ m_calls = 0
    /\ m_pc = "returned"

MedianNext ==
    \/ dbl_median
    \/ Shuffle

\* C7: the median of a permutation of an array equals the median of the
\* array, also when the array holds distinct values that differ by less
\* than DBL_EPSILON.
MedianOfPermutationEqual ==
    m_calls = 2 => med = prev_med

----------------------------------------------------------------------------
(*                         The specifications                              *)

PathIdle ==
    /\ fs = FsOf(Absent, Absent, Absent, Absent)
    /\ cwd = Root
    /\ entry_wd = Root
    /\ path = <<"/">>
    /\ orig_wd = <<>>
    /\ rp = NULL
    /\ pc = "done"
    /\ ret = NULL
    /\ fail_at = "none"
    /\ rl_attempts = <<>>
    /\ restore_failed = FALSE

\* resolved_path
Init == PathInit /\ VarrayIdle /\ ProbeIdle /\ FileIdle /\ MedianIdle
Next == PathNext
Spec == Init /\ [][Next]_vars
\* the function runs to its end: every enabled step is eventually taken
SpecLive == Init /\ [][Next]_vars /\ WF_vars(Next)

\* int_varray_t
InitVarray == VarrayInit /\ PathIdle /\ ProbeIdle /\ FileIdle /\ MedianIdle
SpecVarray == InitVarray /\ [][VarrayNext]_vars

\* is_dir
InitProbe == ProbeInit /\ PathIdle /\ VarrayIdle /\ FileIdle /\ MedianIdle
SpecProbe == InitProbe /\ [][ProbeNext]_vars

\* ae_load_file_to_memory, count_lines, ls_dir
InitFile == FileInit /\ PathIdle /\ VarrayIdle /\ ProbeIdle /\ MedianIdle
SpecFile == InitFile /\ [][FileNext]_vars

\* dbl_median
InitMedian == MedianInit /\ PathIdle /\ VarrayIdle /\ ProbeIdle /\ FileIdle
SpecMedian == InitMedian /\ [][MedianNext]_vars

====
